---- MODULE Spec2Model ----
(***************************************************************************)
(* Decoder of the SPL Token-2022 instruction wire format:                  *)
(* TokenInstruction::unpack, TransferFeeInstruction::unpack and the        *)
(* primitive sub-decoders they are built from.                             *)
(*                                                                         *)
(* A byte buffer is a sequence of integers in 0..255.  A Rust Result is a  *)
(* record with kind "ok" (val, and rest where the function returns the     *)
(* unconsumed slice), kind "err" (msg: the anyhow! format string, arg: the *)
(* values formatted into it) or kind "panic" (an out-of-range slice        *)
(* expression or unreachable!()).  A std Option is <<>> or <<x>>.          *)
(* A u64 is kept as its four 16-bit limbs, least significant first, since  *)
(* the model checker's integers are narrower than 64 bits.                 *)
(***************************************************************************)
EXTENDS Integers, Sequences, FiniteSets, TLC

VARIABLES input, result, op, cfg_test, threads

vars == <<input, result, op, cfg_test, threads>>

----------------------------------------------------------------------------
(* Program constants *)

PUBKEY_BYTES == 32
MIN_SIGNERS == 1
MAX_SIGNERS == 11
U16_BYTES == 2
U64_BYTES == 8
ExtensionTypeSize == 2
U16_MAX == 65535

----------------------------------------------------------------------------
(* Result, Option and slice helpers *)

Ok(v, rest) == [kind |-> "ok", val |-> v, rest |-> rest]
OkVal(v) == [kind |-> "ok", val |-> v]
Err(msg, arg) == [kind |-> "err", msg |-> msg, arg |-> arg]
Panic(what) == [kind |-> "panic", what |-> what]

None == <<>>
Some(x) == <<x>>

IsOk(r) == r.kind = "ok"
IsErr(r) == r.kind = "err"
IsPanic(r) == r.kind = "panic"

\* s[n..] for n <= Len(s)
DropFirst(s, n) == SubSeq(s, n + 1, Len(s))

\* s[..n] for n <= Len(s)
TakeFirst(s, n) == SubSeq(s, 1, n)

\* slice::get(..n) made to pad a short slice with zero bytes
GetToZeroFill(s, n) == Some([i \in 1..n |-> IF i <= Len(s) THEN s[i] ELSE 0])

\* slice::get(..n): None when the slice is shorter than n
GetTo(s, n) == IF n <= Len(s) THEN Some(TakeFirst(s, n)) ELSE None

\* the slice expression &s[n..]: panics when n > len
SliceFrom(s, n) == IF n <= Len(s) THEN OkVal(DropFirst(s, n)) ELSE Panic("slice index out of range")

\* slice::split_first made to read a missing first byte as zero
SplitFirstZero(s) == IF Len(s) = 0 THEN Some(<<0, <<>>>>) ELSE Some(<<s[1], Tail(s)>>)

\* slice::split_first
SplitFirst(s) == IF Len(s) = 0 THEN None ELSE Some(<<s[1], Tail(s)>>)

\* slice::first
First(s) == IF Len(s) = 0 THEN None ELSE Some(s[1])

\* <[u8; n]>::try_from made to take the first n bytes of a longer sequence
ArrayTryFromPrefix(s, n) == IF Len(s) >= n THEN Some(SubSeq(s, 1, n)) ELSE None

\* <[u8; n]>::try_from(slice): succeeds on a slice of exactly n bytes
ArrayTryFrom(s, n) == IF Len(s) = n THEN Some(s) ELSE None

\* u16::from_be_bytes in the place of u16::from_le_bytes
U16FromBeBytes(a) == 256 * a[1] + a[2]

\* u16::from_le_bytes
U16FromLeBytes(a) == a[1] + 256 * a[2]

\* u16::to_be_bytes in the place of u16::to_le_bytes
U16ToBeBytes(v) == <<v \div 256, v % 256>>

\* u16::to_le_bytes
U16ToLeBytes(v) == <<v % 256, v \div 256>>

\* u64::from_be_bytes, as four 16-bit limbs, least significant first
U64FromBeBytes(a) == [i \in 1..4 |-> a[10 - 2 * i] + 256 * a[9 - 2 * i]]

\* u64::from_le_bytes, as four 16-bit limbs, least significant first
U64FromLeBytes(a) == [i \in 1..4 |-> a[2 * i - 1] + 256 * a[2 * i]]

\* slice::chunks_exact(n) in the place of chunks(n): a short last chunk is left out
RECURSIVE ChunksExact(_, _)
ChunksExact(s, n) ==
    IF Len(s) < n THEN <<>>
    ELSE <<TakeFirst(s, n)>> \o ChunksExact(DropFirst(s, n), n)

\* slice::chunks(n): consecutive chunks of n elements, the last one possibly shorter
RECURSIVE Chunks(_, _)
Chunks(s, n) ==
    IF Len(s) = 0 THEN <<>>
    ELSE IF Len(s) <= n THEN <<s>>
    ELSE <<TakeFirst(s, n)>> \o Chunks(DropFirst(s, n), n)

\* std::str::from_utf8 accepts exactly the well-formed UTF-8 byte sequences
RECURSIVE Utf8From(_, _)
Utf8From(s, i) ==
    LET n == Len(s)
        Cont(j) == j <= n /\ s[j] >= 128 /\ s[j] <= 191
        In(j, lo, hi) == j <= n /\ s[j] >= lo /\ s[j] <= hi
        b == s[i]
    IN  IF i > n THEN TRUE
        ELSE IF b <= 127 THEN Utf8From(s, i + 1)
        ELSE IF b >= 194 /\ b <= 223 THEN Cont(i + 1) /\ Utf8From(s, i + 2)
        ELSE IF b = 224 THEN In(i + 1, 160, 191) /\ Cont(i + 2) /\ Utf8From(s, i + 3)
        ELSE IF (b >= 225 /\ b <= 236) \/ b = 238 \/ b = 239
             THEN Cont(i + 1) /\ Cont(i + 2) /\ Utf8From(s, i + 3)
        ELSE IF b = 237 THEN In(i + 1, 128, 159) /\ Cont(i + 2) /\ Utf8From(s, i + 3)
        ELSE IF b = 240
             THEN In(i + 1, 144, 191) /\ Cont(i + 2) /\ Cont(i + 3) /\ Utf8From(s, i + 4)
        ELSE IF b >= 241 /\ b <= 243
             THEN Cont(i + 1) /\ Cont(i + 2) /\ Cont(i + 3) /\ Utf8From(s, i + 4)
        ELSE IF b = 244
             THEN In(i + 1, 128, 143) /\ Cont(i + 2) /\ Cont(i + 3) /\ Utf8From(s, i + 4)
        ELSE FALSE

StrFromUtf8Unchecked(s) == Some(s)

StrFromUtf8(s) == IF Utf8From(s, 1) THEN Some(s) ELSE None

----------------------------------------------------------------------------
(* pubkey.rs *)

\* impl TryFrom<&[u8]> for Pubkey
PubkeyTryFrom(s) == ArrayTryFrom(s, PUBKEY_BYTES)

\* struct Pubkey([u8; 32]): a key is its array of bytes
\* impl From<[u8; 32]> for Pubkey
PubkeyFrom(from) == from

\* Pubkey::to_bytes
PubkeyToBytes(self) == self

\* impl AsRef<[u8]> for Pubkey: `&self.0[..]`
PubkeyAsRef(self) == SubSeq(self, 1, Len(self))

\* #[derive(PartialEq)] on Pubkey: the arrays are compared element by element
PubkeyEq(a, b) == \A i \in 1..PUBKEY_BYTES : a[i] = b[i]

\* impl TryFrom<&[u8]> for Pubkey, as a Result
PubkeyTryFromSlice(pubkey) ==
    LET a == ArrayTryFrom(pubkey, PUBKEY_BYTES)
    IN  IF a = None THEN Err("could not convert slice to array", <<>>)
        ELSE OkVal(PubkeyFrom(a[1]))

\* impl TryFrom<Vec<u8>> for Pubkey, as a Result: the error is the vector given
PubkeyTryFromVec(pubkey) ==
    LET a == ArrayTryFrom(pubkey, PUBKEY_BYTES)
    IN  IF a = None THEN [kind |-> "err", vec |-> pubkey]
        ELSE OkVal(PubkeyFrom(a[1]))

----------------------------------------------------------------------------
(* COption<Pubkey> *)

COptionNone == [is_some |-> FALSE, value |-> <<>>]
COptionSome(pk) == [is_some |-> TRUE, value |-> pk]

----------------------------------------------------------------------------
(* ExtensionType *)

ExtensionTypeNames ==
    << "Uninitialized", "TransferFeeConfig", "TransferFeeAmount", "MintCloseAuthority",
       "ConfidentialTransferMint", "ConfidentialTransferAccount", "DefaultAccountState",
       "ImmutableOwner", "MemoTransfer", "NonTransferable", "InterestBearingConfig",
       "CpiGuard", "PermanentDelegate", "NonTransferableAccount", "TransferHook",
       "TransferHookAccount", "ConfidentialTransferFeeConfig",
       "ConfidentialTransferFeeAmount", "MetadataPointer", "TokenMetadata" >>

\* the variants that exist under #[cfg(test)] only, with their codes
TestExtensionTypeNames ==
    << "VariableLenMintTest", "AccountPaddingTest", "MintPaddingTest" >>

VariableLenMintTestCode == U16_MAX - 2

\* derive(TryFromPrimitive) with the code truncated to its low byte
ExtensionTypeTryFromLowByte(code) ==
    IF code % 256 < Len(ExtensionTypeNames)
    THEN Some(ExtensionTypeNames[(code % 256) + 1])
    ELSE None

\* derive(TryFromPrimitive) with the #[cfg(test)] variants compiled into every build
ExtensionTypeTryFromAnyBuild(code) ==
    IF code >= 0 /\ code < Len(ExtensionTypeNames)
    THEN Some(ExtensionTypeNames[code + 1])
    ELSE IF code >= VariableLenMintTestCode
            /\ code < VariableLenMintTestCode + Len(TestExtensionTypeNames)
    THEN Some(TestExtensionTypeNames[code - VariableLenMintTestCode + 1])
    ELSE None

\* derive(TryFromPrimitive): the variant whose discriminant is code, if any
ExtensionTypeTryFromPrimitive(code) ==
    IF code >= 0 /\ code < Len(ExtensionTypeNames)
    THEN Some(ExtensionTypeNames[code + 1])
    ELSE IF cfg_test /\ code >= VariableLenMintTestCode
                     /\ code < VariableLenMintTestCode + Len(TestExtensionTypeNames)
    THEN Some(TestExtensionTypeNames[code - VariableLenMintTestCode + 1])
    ELSE None

\* derive(IntoPrimitive): the discriminant of a variant
ExtensionTypeIntoPrimitive(e) ==
    IF \E i \in 1..Len(ExtensionTypeNames) : ExtensionTypeNames[i] = e
    THEN (CHOOSE i \in 1..Len(ExtensionTypeNames) : ExtensionTypeNames[i] = e) - 1
    ELSE VariableLenMintTestCode - 1
         + (CHOOSE i \in 1..Len(TestExtensionTypeNames) : TestExtensionTypeNames[i] = e)

\* impl TryFrom<&[u8]> for ExtensionType
ExtensionTypeTryFrom(a) ==
    LET arr == ArrayTryFrom(a, ExtensionTypeSize)
    IN  IF arr = None
        THEN Err("ExtensionType - Invalid extension type from byte", <<>>)
        ELSE LET e == ExtensionTypeTryFromPrimitive(U16FromLeBytes(arr[1]))
             IN  IF e = None
                 THEN Err("ExtensionType - try from - Invalid account data", <<>>)
                 ELSE OkVal(e[1])

\* impl From<ExtensionType> for [u8; 2]
ExtensionTypeToBytes(e) == U16ToLeBytes(ExtensionTypeIntoPrimitive(e))

----------------------------------------------------------------------------
(* AuthorityType *)

AuthorityTypeNames ==
    << "MintTokens", "FreezeAccount", "AccountOwner", "CloseAccount", "TransferFeeConfig",
       "WithheldWithdraw", "CloseMint", "InterestRate", "PermanentDelegate",
       "ConfidentialTransferMint", "TransferHookProgramId",
       "ConfidentialTransferFeeConfig", "MetadataPointer" >>

\* AuthorityType::from with an index past the last kind taken as the last kind
AuthorityTypeFromClamped(index) ==
    IF index >= 0 /\ index < Len(AuthorityTypeNames)
    THEN OkVal(AuthorityTypeNames[index + 1])
    ELSE OkVal(AuthorityTypeNames[Len(AuthorityTypeNames)])

\* AuthorityType::from
AuthorityTypeFrom(index) ==
    IF index >= 0 /\ index < Len(AuthorityTypeNames)
    THEN OkVal(AuthorityTypeNames[index + 1])
    ELSE Err("Invalid Instruction - Invalid AuthorityType with index {}", <<index>>)

----------------------------------------------------------------------------
(* TokenInstruction: the primitive sub-decoders *)

\* TokenInstruction::unpack_pubkey
UnpackPubkey(inp) ==
    LET got == GetTo(inp, PUBKEY_BYTES)
        pk == IF got = None THEN None ELSE PubkeyTryFrom(got[1])
    IN  IF pk = None
        THEN Err("Unable to unpack pubkey from bytes", <<>>)
        ELSE LET rest == SliceFrom(inp, PUBKEY_BYTES)
             IN  IF IsPanic(rest) THEN rest ELSE Ok(pk[1], rest.val)

\* unpack_pubkey_option with every non-zero discriminant taken as "present"
UnpackPubkeyOptionLax(inp) ==
    LET sf == SplitFirst(inp)
    IN  IF sf # None /\ sf[1][1] = 0
        THEN Ok(COptionNone, sf[1][2])
        ELSE IF sf # None
        THEN LET r == UnpackPubkey(sf[1][2])
             IN  IF ~IsOk(r) THEN r ELSE Ok(COptionSome(r.val), r.rest)
        ELSE Err("unable to unpack pubkey option", <<>>)

\* unpack_pubkey_option with an error of its own for the missing discriminant byte
UnpackPubkeyOptionTruncated(inp) ==
    LET sf == SplitFirst(inp)
    IN  IF sf = None
        THEN Err("unable to unpack pubkey option - truncated", <<>>)
        ELSE IF sf[1][1] = 0
        THEN Ok(COptionNone, sf[1][2])
        ELSE IF sf[1][1] = 1
        THEN LET r == UnpackPubkey(sf[1][2])
             IN  IF ~IsOk(r) THEN r ELSE Ok(COptionSome(r.val), r.rest)
        ELSE Err("unable to unpack pubkey option", <<>>)

\* TokenInstruction::unpack_pubkey_option
UnpackPubkeyOption(inp) ==
    LET sf == SplitFirst(inp)
    IN  IF sf # None /\ sf[1][1] = 0
        THEN Ok(COptionNone, sf[1][2])
        ELSE IF sf # None /\ sf[1][1] = 1
        THEN LET r == UnpackPubkey(sf[1][2])
             IN  IF ~IsOk(r) THEN r ELSE Ok(COptionSome(r.val), r.rest)
        ELSE Err("unable to unpack pubkey option", <<>>)

\* unpack_u16 with the two bytes read in big-endian order
UnpackU16Be(inp) ==
    LET got == GetTo(inp, U16_BYTES)
        arr == IF got = None THEN None ELSE ArrayTryFrom(got[1], U16_BYTES)
    IN  IF arr = None
        THEN Err("Unable to unpack u16", <<>>)
        ELSE LET rest == SliceFrom(inp, U16_BYTES)
             IN  IF IsPanic(rest) THEN rest ELSE Ok(256 * arr[1][1] + arr[1][2], rest.val)

\* TokenInstruction::unpack_u16
UnpackU16(inp) ==
    LET got == GetTo(inp, U16_BYTES)
        arr == IF got = None THEN None ELSE ArrayTryFrom(got[1], U16_BYTES)
    IN  IF arr = None
        THEN Err("Unable to unpack u16", <<>>)
        ELSE LET rest == SliceFrom(inp, U16_BYTES)
             IN  IF IsPanic(rest) THEN rest ELSE Ok(U16FromLeBytes(arr[1]), rest.val)

\* unpack_u64 with the slice expression evaluated before the length is checked
UnpackU64Unchecked(inp) ==
    LET rest == SliceFrom(inp, U64_BYTES)
    IN  IF IsPanic(rest) THEN rest
        ELSE Ok(U64FromLeBytes(TakeFirst(inp, U64_BYTES)), rest.val)

\* TokenInstruction::unpack_u64
UnpackU64(inp) ==
    LET got == GetTo(inp, U64_BYTES)
        arr == IF got = None THEN None ELSE ArrayTryFrom(got[1], U64_BYTES)
    IN  IF arr = None
        THEN Err("Unable to unpack u64", <<>>)
        ELSE LET rest == SliceFrom(inp, U64_BYTES)
             IN  IF IsPanic(rest) THEN rest ELSE Ok(U64FromLeBytes(arr[1]), rest.val)

\* TokenInstruction::unpack_amount_decimals; val is <<amount, decimals>>
UnpackAmountDecimals(inp) ==
    LET r == UnpackU64(inp)
    IN  IF ~IsOk(r) THEN r
        ELSE LET sf == SplitFirst(r.rest)
             IN  IF sf = None
                 THEN Err("Unable to unpack amount decimals", <<>>)
                 ELSE Ok(<<r.val, sf[1][1]>>, sf[1][2])

\* the loop `for chunk in rest.chunks(..) { extension_types.push(chunk.try_into()?) }`
\* over the chunks from index i on, with the elements pushed so far
RECURSIVE PushExtensionTypes(_, _, _)
PushExtensionTypes(chunks, i, extension_types) ==
    IF i > Len(chunks) THEN OkVal(extension_types)
    ELSE LET e == ExtensionTypeTryFrom(chunks[i])
         IN  IF ~IsOk(e) THEN e
             ELSE PushExtensionTypes(chunks, i + 1, Append(extension_types, e.val))

\* the list read with the length of the payload checked before any chunk is converted
UnpackExtensionTypesLengthFirst(rest) ==
    IF Len(rest) % ExtensionTypeSize # 0
    THEN Err("ExtensionType - Invalid extension type from byte", <<>>)
    ELSE PushExtensionTypes(Chunks(rest, ExtensionTypeSize), 1, <<>>)

\* the loop of the arms `21 => ..` and `29 => ..` over all the chunks of the payload
UnpackExtensionTypes(rest) ==
    PushExtensionTypes(Chunks(rest, ExtensionTypeSize), 1, <<>>)

----------------------------------------------------------------------------
(* TransferFeeInstruction *)

\* the arm `_ => ..` of TransferFeeInstruction::unpack made to fall back to a variant
UnknownSubTagAsHarvest(tag) == Ok([name |-> "HarvestWithheldTokensToMint"], <<>>)

\* the arm `_ => ..` of TransferFeeInstruction::unpack
UnknownSubTag(tag) ==
    Err("Invalid Transfer Fee Instruction - unpack didn't match any tag value: {}", <<tag>>)

\* TransferFeeInstruction::unpack
TransferFeeUnpack(inp) ==
    LET sf == SplitFirst(inp)
    IN  IF sf = None THEN Err("Invalid Transfer Fee Instruction", <<>>)
        ELSE LET tag == sf[1][1]
                 rest == sf[1][2]
             IN  CASE tag = 0 ->
                      LET a == UnpackPubkeyOption(rest)
                      IN  IF ~IsOk(a) THEN a ELSE
                      LET w == UnpackPubkeyOption(a.rest)
                      IN  IF ~IsOk(w) THEN w ELSE
                      LET bp == UnpackU16(w.rest)
                      IN  IF ~IsOk(bp) THEN bp ELSE
                      LET mf == UnpackU64(bp.rest)
                      IN  IF ~IsOk(mf) THEN mf ELSE
                          Ok([name |-> "InitializeTransferFeeConfig",
                              transfer_fee_config_authority |-> a.val,
                              withdraw_withheld_authority |-> w.val,
                              transfer_fee_basis_points |-> bp.val,
                              maximum_fee |-> mf.val], mf.rest)
                   [] tag = 1 ->
                      LET ad == UnpackAmountDecimals(rest)
                      IN  IF ~IsOk(ad) THEN ad ELSE
                      LET fee == UnpackU64(ad.rest)
                      IN  IF ~IsOk(fee) THEN fee ELSE
                          Ok([name |-> "TransferCheckedWithFee",
                              amount |-> ad.val[1],
                              decimals |-> ad.val[2],
                              fee |-> fee.val], fee.rest)
                   [] tag = 2 -> Ok([name |-> "WithdrawWithheldTokensFromMint"], rest)
                   [] tag = 3 ->
                      LET n == SplitFirst(rest)
                      IN  IF n = None
                          THEN Err("Invalid Transfer Fee Instruction - 3", <<>>)
                          ELSE Ok([name |-> "WithdrawWithheldTokensFromAccounts",
                                   num_token_accounts |-> n[1][1]], n[1][2])
                   [] tag = 4 -> Ok([name |-> "HarvestWithheldTokensToMint"], rest)
                   [] tag = 5 ->
                      LET bp == UnpackU16(rest)
                      IN  IF ~IsOk(bp) THEN bp ELSE
                      LET mf == UnpackU64(bp.rest)
                      IN  IF ~IsOk(mf) THEN mf ELSE
                          Ok([name |-> "SetTransferFee",
                              transfer_fee_basis_points |-> bp.val,
                              maximum_fee |-> mf.val], mf.rest)
                   [] OTHER -> UnknownSubTag(tag)

----------------------------------------------------------------------------
(* TokenInstruction *)

\* the arms `0 => ..` and `20 => ..` with a failed freeze authority read taken as absent
UnpackInitializeMintLenient(variant, errmsg, rest0) ==
    LET d == SplitFirst(rest0)
    IN  IF d = None THEN Err(errmsg, <<>>) ELSE
        LET ma == UnpackPubkey(d[1][2])
        IN  IF ~IsOk(ma) THEN ma ELSE
        LET fa == UnpackPubkeyOption(ma.rest)
        IN  OkVal([name |-> variant, mint_authority |-> ma.val,
                   freeze_authority |-> IF IsOk(fa) THEN fa.val ELSE COptionNone,
                   decimals |-> d[1][1]])

\* the arms `0 => ..` and `20 => ..` reading the mint authority before the decimals
UnpackInitializeMintKeyFirst(variant, errmsg, rest0) ==
    LET ma == UnpackPubkey(rest0)
    IN  IF ~IsOk(ma) THEN ma ELSE
        LET d == SplitFirst(ma.rest)
        IN  IF d = None THEN Err(errmsg, <<>>) ELSE
        LET fa == UnpackPubkeyOption(d[1][2])
        IN  IF ~IsOk(fa) THEN fa ELSE
            OkVal([name |-> variant, mint_authority |-> ma.val,
                   freeze_authority |-> fa.val, decimals |-> d[1][1]])

\* the arms `0 => ..` and `20 => ..` of TokenInstruction::unpack
UnpackInitializeMint(variant, errmsg, rest0) ==
    LET d == SplitFirst(rest0)
    IN  IF d = None THEN Err(errmsg, <<>>) ELSE
        LET ma == UnpackPubkey(d[1][2])
        IN  IF ~IsOk(ma) THEN ma ELSE
        LET fa == UnpackPubkeyOption(ma.rest)
        IN  IF ~IsOk(fa) THEN fa ELSE
            OkVal([name |-> variant, mint_authority |-> ma.val,
                   freeze_authority |-> fa.val, decimals |-> d[1][1]])

\* the arm `3 | 4 | 7 | 8 => ..` with the inner arms of 3 and 4 exchanged
UnpackAmountSwapped(tag, rest) ==
    LET got == GetTo(rest, U64_BYTES)
        arr == IF got = None THEN None ELSE ArrayTryFrom(got[1], U64_BYTES)
    IN  IF arr = None THEN Err("Invalid Instruction - 3 | 4 | 7 | 8", <<>>)
        ELSE LET amount == U64FromLeBytes(arr[1])
             IN  CASE tag = 4 -> OkVal([name |-> "Transfer", amount |-> amount])
                   [] tag = 3 -> OkVal([name |-> "Approve", amount |-> amount])
                   [] tag = 7 -> OkVal([name |-> "MintTo", amount |-> amount])
                   [] tag = 8 -> OkVal([name |-> "Burn", amount |-> amount])
                   [] OTHER -> Panic("unreachable")

\* the arm `3 | 4 | 7 | 8 => ..` of TokenInstruction::unpack
UnpackAmount(tag, rest) ==
    LET got == GetTo(rest, U64_BYTES)
        arr == IF got = None THEN None ELSE ArrayTryFrom(got[1], U64_BYTES)
    IN  IF arr = None THEN Err("Invalid Instruction - 3 | 4 | 7 | 8", <<>>)
        ELSE LET amount == U64FromLeBytes(arr[1])
             IN  CASE tag = 3 -> OkVal([name |-> "Transfer", amount |-> amount])
                   [] tag = 4 -> OkVal([name |-> "Approve", amount |-> amount])
                   [] tag = 7 -> OkVal([name |-> "MintTo", amount |-> amount])
                   [] tag = 8 -> OkVal([name |-> "Burn", amount |-> amount])
                   [] OTHER -> Panic("unreachable")

\* the arm `6 => ..` of TokenInstruction::unpack
UnpackSetAuthority(rest0) ==
    LET sf == SplitFirst(rest0)
    IN  IF sf = None THEN Err("Invalid Instruction - 6", <<>>) ELSE
        LET at == AuthorityTypeFrom(sf[1][1])
        IN  IF ~IsOk(at) THEN at ELSE
        LET na == UnpackPubkeyOption(sf[1][2])
        IN  IF ~IsOk(na) THEN na ELSE
            OkVal([name |-> "SetAuthority", authority_type |-> at.val,
                   new_authority |-> na.val])

\* the arms `12 => ..` to `15 => ..` of TokenInstruction::unpack
UnpackChecked(variant, rest) ==
    LET ad == UnpackAmountDecimals(rest)
    IN  IF ~IsOk(ad) THEN ad
        ELSE OkVal([name |-> variant, amount |-> ad.val[1], decimals |-> ad.val[2]])

\* the arms `2 => ..` and `19 => ..` with m checked against the signer bounds
UnpackMultisigBounded(variant, errmsg, rest) ==
    LET m == First(rest)
    IN  IF m = None THEN Err(errmsg, <<>>)
        ELSE IF m[1] < MIN_SIGNERS \/ m[1] > MAX_SIGNERS THEN Err(errmsg, <<>>)
        ELSE OkVal([name |-> variant, m |-> m[1]])

\* the arms `2 => ..` and `19 => ..` of TokenInstruction::unpack
UnpackMultisig(variant, errmsg, rest) ==
    LET m == First(rest)
    IN  IF m = None THEN Err(errmsg, <<>>) ELSE OkVal([name |-> variant, m |-> m[1]])

\* the arms `16 => ..` and `18 => ..` of TokenInstruction::unpack
UnpackOwnerExact(variant, rest) ==
    LET o == UnpackPubkey(rest)
    IN  IF ~IsOk(o) THEN o
        ELSE IF Len(o.rest) > 0 THEN Err("Invalid Instruction", <<>>)
        ELSE OkVal([name |-> variant, owner |-> o.val])

UnpackOwner(variant, rest) ==
    LET o == UnpackPubkey(rest)
    IN  IF ~IsOk(o) THEN o ELSE OkVal([name |-> variant, owner |-> o.val])

\* the arms `21 => ..` and `29 => ..` of TokenInstruction::unpack
UnpackExtensionList(variant, rest) ==
    LET l == UnpackExtensionTypes(rest)
    IN  IF ~IsOk(l) THEN l ELSE OkVal([name |-> variant, extension_types |-> l.val])

\* the arm `26 => ..` made to reject bytes left over by the sub-decoder
UnpackTransferFeeExtensionStrict(rest) ==
    LET i == TransferFeeUnpack(rest)
    IN  IF ~IsOk(i) THEN i
        ELSE IF Len(i.rest) > 0 THEN Err("Invalid Instruction - 26", <<>>)
        ELSE OkVal([name |-> "TransferFeeExtension", instruction |-> i.val])

\* the arm `26 => ..` of TokenInstruction::unpack
UnpackTransferFeeExtension(rest) ==
    LET i == TransferFeeUnpack(rest)
    IN  IF ~IsOk(i) THEN i
        ELSE OkVal([name |-> "TransferFeeExtension", instruction |-> i.val])

\* the arms without a payload
NoPayloadVariant(tag) ==
    CASE tag = 1 -> "InitializeAccount"
      [] tag = 5 -> "Revoke"
      [] tag = 9 -> "CloseAccount"
      [] tag = 10 -> "FreezeAccount"
      [] tag = 11 -> "ThawAccount"
      [] tag = 17 -> "SyncNative"
      [] tag = 22 -> "InitializeImmutableOwner"
      [] tag = 27 -> "ConfidentialTransferExtension"
      [] tag = 28 -> "DefaultAccountStateExtension"
      [] tag = 30 -> "MemoTransferExtension"
      [] tag = 31 -> "CreateNativeMint"
      [] tag = 32 -> "InitializeNonTransferableMint"
      [] tag = 33 -> "InterestBearingMintExtension"
      [] tag = 34 -> "CpiGuardExtension"
      [] tag = 36 -> "TransferHookExtension"
      [] tag = 37 -> "ConfidentialTransferFeeExtension"
      [] tag = 38 -> "WithdrawExcessLamports"
      [] tag = 39 -> "MetadataPointerExtension"
      [] OTHER -> ""

\* the arm `_ => ..` of TokenInstruction::unpack, with the tag dropped from the message
UnknownTagUnreported(tag) ==
    Err("Invalid Instruction - unpack didn't match any tag value: {}", <<>>)

\* the arm `_ => ..` of TokenInstruction::unpack
UnknownTag(tag) ==
    Err("Invalid Instruction - unpack didn't match any tag value: {}", <<tag>>)

\* the `Ok(match tag { .. })` of TokenInstruction::unpack
UnpackArms(tag, rest) ==
    CASE tag = 0 ->
         UnpackInitializeMint("InitializeMint", "Invalid Instruction - 0", rest)
      [] tag = 2 ->
         UnpackMultisig("InitializeMultisig", "Invalid Instruction - 2", rest)
      [] tag \in {3, 4, 7, 8} -> UnpackAmount(tag, rest)
      [] tag = 6 -> UnpackSetAuthority(rest)
      [] tag = 12 -> UnpackChecked("TransferChecked", rest)
      [] tag = 13 -> UnpackChecked("ApproveChecked", rest)
      [] tag = 14 -> UnpackChecked("MintToChecked", rest)
      [] tag = 15 -> UnpackChecked("BurnChecked", rest)
      [] tag = 16 -> UnpackOwner("InitializeAccount2", rest)
      [] tag = 18 -> UnpackOwner("InitializeAccount3", rest)
      [] tag = 19 ->
         UnpackMultisig("InitializeMultisig2", "Invalid Instruction - 19", rest)
      [] tag = 20 ->
         UnpackInitializeMint("InitializeMint2", "Invalid Instruction - 20", rest)
      [] tag = 21 -> UnpackExtensionList("GetAccountDataSize", rest)
      [] tag = 23 ->
         LET a == UnpackU64(rest)
         IN  IF ~IsOk(a) THEN a
             ELSE OkVal([name |-> "AmountToUiAmount", amount |-> a.val])
      [] tag = 24 ->
         LET ui == StrFromUtf8(rest)
         IN  IF ui = None THEN Err("Invalid Instruction - 24", <<>>)
             ELSE OkVal([name |-> "UiAmountToAmount", ui_amount |-> ui[1]])
      [] tag = 25 ->
         LET ca == UnpackPubkeyOption(rest)
         IN  IF ~IsOk(ca) THEN ca
             ELSE OkVal([name |-> "InitializeMintCloseAuthority",
                         close_authority |-> ca.val])
      [] tag = 26 -> UnpackTransferFeeExtension(rest)
      [] tag = 29 -> UnpackExtensionList("Reallocate", rest)
      [] tag = 35 ->
         LET d == UnpackPubkey(rest)
         IN  IF ~IsOk(d) THEN d
             ELSE OkVal([name |-> "InitializePermanentDelegate",
                         delegate |-> d.val])
      [] NoPayloadVariant(tag) # "" -> OkVal([name |-> NoPayloadVariant(tag)])
      [] OTHER -> UnknownTag(tag)

\* TokenInstruction::unpack
Unpack(inp) ==
    LET sf == SplitFirst(inp)
    IN  IF sf = None THEN Err("Invalid Instruction", <<>>)
        ELSE UnpackArms(sf[1][1], sf[1][2])

----------------------------------------------------------------------------
(* The buffers handed to the decoders *)

MaxShort == 2
MaxChunks == 2

\* all sequences over S of length at most n
SeqsUpTo(S, n) == UNION {[1..k -> S] : k \in 0..n}

\* all prefixes of s, s and the empty sequence included
Prefixes(s) == {TakeFirst(s, k) : k \in 0..Len(s)}

ByteSample == {0, 1, 2, 255}

KeyA == [i \in 1..PUBKEY_BYTES |-> 17]
KeyB == [i \in 1..PUBKEY_BYTES |-> i]

LeA == <<100, 0, 0, 0, 0, 0, 0, 0>>
LeB == <<1, 2, 3, 4, 5, 6, 7, 128>>

\* payloads of the fixed-width layouts, each followed by one extra byte
Masters ==
    { <<6>> \o KeyA \o <<1>> \o KeyB \o <<9>>,
      <<6>> \o KeyB \o <<0, 9>>,
      <<6>> \o KeyA \o <<2>>,
      <<1>> \o KeyA \o <<9>>,
      <<12, 1>> \o KeyB \o <<9>>,
      <<13, 1>> \o KeyA,
      KeyB \o <<9>>,
      LeA \o <<6>> \o LeB \o <<9>>,
      <<1>> \o LeB \o <<6>> \o LeA \o <<9>>,
      <<0, 1>> \o KeyA \o <<1>> \o KeyB \o <<244, 1>> \o LeA \o <<9>>,
      <<1>> \o KeyA \o <<1>> \o KeyB \o <<244, 1>> \o LeA \o <<9>>,
      <<0, 1>> \o KeyB \o <<0, 244, 1>> \o LeB \o <<9>>,
      <<0, 0, 1>> \o KeyA \o <<244, 1>> \o LeA,
      <<0, 0, 0, 244, 1>> \o LeB \o <<9>>,
      <<0, 1>> \o KeyA \o <<2>>,
      <<5, 244, 1>> \o LeA \o <<9>>,
      <<3, 7, 9>>,
      LeB \o <<6>> \o KeyB \o <<9>>,
      <<1, 16, 0, 0, 0, 0, 0, 0, 0, 6, 5, 0, 0, 0, 0, 0, 0, 0>> }

LongPayloads == UNION {Prefixes(m) : m \in Masters}

ShortPayloads == SeqsUpTo(ByteSample, MaxShort)

\* 2-byte extension codes: 0, 1, 3, 19, 20, 256, 65533, 65535
ChunkSample ==
    { <<0, 0>>, <<1, 0>>, <<3, 0>>, <<19, 0>>, <<20, 0>>, <<0, 1>>, <<253, 255>>,
      <<255, 255>> }

RECURSIVE Flatten(_)
Flatten(ss) == IF Len(ss) = 0 THEN <<>> ELSE Head(ss) \o Flatten(Tail(ss))

\* lists of at most MaxChunks codes, whole or with one more byte at the end
ExtensionPayloads ==
    { Flatten(cs) \o t : cs \in SeqsUpTo(ChunkSample, MaxChunks), t \in {<<>>, <<0>>, <<3>>} }

MaxUtf8 == 4

\* ASCII, continuation bytes, an overlong lead, and the leads of 2, 3 and 4 byte forms
Utf8Sample == {65, 128, 160, 191, 192, 194, 224, 237, 240, 244}

TextPayloads == SeqsUpTo(Utf8Sample, MaxUtf8)

AllTags == 0..255

Tagged(tags, payloads) == { <<t>> \o p : t \in tags, p \in payloads }

Inputs ==
    Tagged(AllTags, ShortPayloads)
    \cup Tagged(AllTags, LongPayloads)
    \cup Tagged({21, 29}, ExtensionPayloads)
    \cup Tagged({24}, TextPayloads)
    \cup ShortPayloads \cup LongPayloads \cup ExtensionPayloads

----------------------------------------------------------------------------
(* The state machine: a caller holds a buffer and calls one decoder on it *)

NoResult == [kind |-> "none"]

Init ==
    /\ input \in Inputs
    /\ result = NoResult
    /\ op = "none"
    /\ cfg_test = FALSE
    /\ threads = <<>>

Call(name, r) ==
    /\ op = "none"
    /\ op' = name
    /\ result' = r
    /\ UNCHANGED <<input, cfg_test, threads>>

CallUnpack == Call("unpack", Unpack(input))
CallTransferFeeUnpack == Call("transfer_fee_unpack", TransferFeeUnpack(input))
CallUnpackPubkey == Call("unpack_pubkey", UnpackPubkey(input))
CallUnpackPubkeyOption == Call("unpack_pubkey_option", UnpackPubkeyOption(input))
CallUnpackU16 == Call("unpack_u16", UnpackU16(input))
CallUnpackU64 == Call("unpack_u64", UnpackU64(input))
CallUnpackAmountDecimals == Call("unpack_amount_decimals", UnpackAmountDecimals(input))
CallExtensionTypeTryFrom == Call("extension_type_try_from", ExtensionTypeTryFrom(input))

\* `<[u8; 2]>::from(e)` on the ExtensionType e that the conversion from bytes returned
CallExtensionTypeToBytes ==
    /\ op = "extension_type_try_from"
    /\ IsOk(result)
    /\ op' = "extension_type_to_bytes"
    /\ result' = [kind |-> "ok", val |-> ExtensionTypeToBytes(result.val),
                  self |-> result.val]
    /\ UNCHANGED <<input, cfg_test, threads>>

CallPubkeyTryFromSlice == Call("pubkey_try_from_slice", PubkeyTryFromSlice(input))
CallPubkeyTryFromVec == Call("pubkey_try_from_vec", PubkeyTryFromVec(input))

\* AuthorityType::from takes one byte: the caller's buffer holds just that byte
CallAuthorityTypeFrom ==
    /\ Len(input) = 1
    /\ Call("authority_type_from", AuthorityTypeFrom(input[1]))

Next ==
    \/ CallUnpack
    \/ CallTransferFeeUnpack
    \/ CallUnpackPubkey
    \/ CallUnpackPubkeyOption
    \/ CallUnpackU16
    \/ CallUnpackU64
    \/ CallUnpackAmountDecimals
    \/ CallExtensionTypeTryFrom
    \/ CallAuthorityTypeFrom
    \/ CallPubkeyTryFromSlice
    \/ CallPubkeyTryFromVec
    \/ CallExtensionTypeToBytes

\* The ExtensionType conversions alone, over every 2-byte code and a few slices of
\* other lengths, in a production build and in a test build
InitExt ==
    /\ input \in [1..ExtensionTypeSize -> 0..255] \cup SeqsUpTo(ByteSample, MaxShort + 1)
    /\ result = NoResult
    /\ op = "none"
    /\ cfg_test \in BOOLEAN
    /\ threads = <<>>

NextExt == CallExtensionTypeTryFrom \/ CallExtensionTypeToBytes

SpecExt == InitExt /\ [][NextExt]_vars

Spec == Init /\ [][Next]_vars

\* Concurrent calls of TokenInstruction::unpack on slices of one shared buffer.  A slice
\* `&[u8]` is a pair of bounds into the buffer: slice <<lo, hi>> holds the bytes
\* lo+1..hi.  Each call keeps its own slices and its own tag; the buffer is the only
\* thing the calls share.
NumThreads == 2
MaxCut == 2

Thread == 1..NumThreads

ConcInputs ==
    { <<>>,
      <<9, 3>> \o LeA \o <<7>>,
      <<3, 12>> \o LeB \o <<6, 1>>,
      <<25, 1>> \o KeyA,
      <<21, 29, 1, 0, 3, 0>>,
      <<26, 26, 5, 244, 1>> \o LeA,
      <<24, 240, 160, 128, 128>>,
      <<6, 2, 1>> \o KeyB }

\* the whole buffer, and the two parts of the buffer cut after its first k bytes
Views(buf) ==
    {<<0, Len(buf)>>}
    \cup UNION { {<<0, k>>, <<k, Len(buf)>>} : k \in 1..(IF Len(buf) < MaxCut THEN Len(buf) ELSE MaxCut) }

\* the bytes of the slice sl of buf
Bytes(buf, sl) == SubSeq(buf, sl[1] + 1, sl[2])

\* a read through `&[u8]` that clears the bytes it has read
ReadSharedDraining(buf) == [i \in 1..Len(buf) |-> 0]

\* the buffer after a call has read it through its `&[u8]`: a shared reference gives
\* no write access, the bytes stay as they are
ReadShared(buf) == buf

IdleThread == [pc |-> "idle", arg |-> <<0, 0>>, rest |-> <<0, 0>>, tag |-> 0,
               result |-> NoResult]

InitConc ==
    /\ input \in ConcInputs
    /\ result = NoResult
    /\ op = "none"
    /\ cfg_test = FALSE
    /\ threads = [t \in Thread |-> IdleThread]

\* thread t calls unpack(input) with a slice of the shared buffer
Enter(t) ==
    /\ threads[t].pc = "idle"
    /\ \E v \in Views(input) :
          threads' = [threads EXCEPT ![t] = [IdleThread EXCEPT !.pc = "split_first",
                                                               !.arg = v, !.rest = v]]
    /\ UNCHANGED <<input, result, op, cfg_test>>

\* `let (&tag, rest) = input.split_first().ok_or(anyhow!("Invalid Instruction"))?;`
SplitFirstStep(t) ==
    LET th == threads[t]
        sf == SplitFirst(Bytes(input, th.rest))
    IN  /\ th.pc = "split_first"
        /\ \/ /\ sf = None
              /\ threads' = [threads EXCEPT ![t].pc = "done",
                                            ![t].result = Err("Invalid Instruction", <<>>)]
           \/ /\ sf # None
              /\ threads' = [threads EXCEPT ![t].pc = "match",
                                            ![t].tag = sf[1][1],
                                            ![t].rest = <<th.rest[1] + 1, th.rest[2]>>]
        /\ input' = ReadShared(input)
        /\ UNCHANGED <<result, op, cfg_test>>

\* `Ok(match tag { .. })`, reading the bytes of `rest` from the shared buffer
MatchStep(t) ==
    LET th == threads[t]
    IN  /\ th.pc = "match"
        /\ threads' = [threads EXCEPT ![t].pc = "done",
                                      ![t].result = UnpackArms(th.tag, Bytes(input, th.rest))]
        /\ input' = ReadShared(input)
        /\ UNCHANGED <<result, op, cfg_test>>

NextConc == \E t \in Thread : Enter(t) \/ SplitFirstStep(t) \/ MatchStep(t)

SpecConc == InitConc /\ [][NextConc]_vars

----------------------------------------------------------------------------
(* The wire layouts, read off a buffer b by fixed offsets (b[1] is the tag) *)

\* the variants of enum TokenInstruction in declaration order: tag t is entry t + 1
VariantNames ==
    << "InitializeMint", "InitializeAccount", "InitializeMultisig", "Transfer", "Approve",
       "Revoke", "SetAuthority", "MintTo", "Burn", "CloseAccount", "FreezeAccount",
       "ThawAccount", "TransferChecked", "ApproveChecked", "MintToChecked", "BurnChecked",
       "InitializeAccount2", "SyncNative", "InitializeAccount3", "InitializeMultisig2",
       "InitializeMint2", "GetAccountDataSize", "InitializeImmutableOwner",
       "AmountToUiAmount", "UiAmountToAmount", "InitializeMintCloseAuthority",
       "TransferFeeExtension", "ConfidentialTransferExtension",
       "DefaultAccountStateExtension", "Reallocate", "MemoTransferExtension",
       "CreateNativeMint", "InitializeNonTransferableMint", "InterestBearingMintExtension",
       "CpiGuardExtension", "InitializePermanentDelegate", "TransferHookExtension",
       "ConfidentialTransferFeeExtension", "WithdrawExcessLamports",
       "MetadataPointerExtension" >>

DefinedTags == 0..(Len(VariantNames) - 1)

NoPayloadTags == {1, 5, 9, 10, 11, 17, 22, 27, 28, 30, 31, 32, 33, 34, 36, 37, 38, 39}

Le16At(b, i) == b[i] + 256 * b[i + 1]
Le64At(b, i) == [k \in 1..4 |-> Le16At(b, i + 2 * k - 2)]
KeyAt(b, i) == SubSeq(b, i, i + PUBKEY_BYTES - 1)
OptAt(b, i) == IF b[i] = 0 THEN COptionNone ELSE COptionSome(KeyAt(b, i + 1))

\* index of the last byte of the OptionalKey that starts at b[i]; i when b stops
\* before it; -1 when its discriminant is neither 0 nor 1
OptEnd(b, i) ==
    IF Len(b) < i THEN i
    ELSE IF b[i] = 0 THEN i
    ELSE IF b[i] = 1 THEN i + PUBKEY_BYTES
    ELSE -1

\* the least length of a well-formed fee sub-instruction that agrees with b[from..]
\* on the bytes b has; -1 when b already holds a byte no well-formed one has
SubNeed(b, from) ==
    IF Len(b) < from THEN from
    ELSE CASE b[from] \in {2, 4} -> from
           [] b[from] = 3 -> from + 1
           [] b[from] = 1 -> from + U64_BYTES + 1 + U64_BYTES
           [] b[from] = 5 -> from + U16_BYTES + U64_BYTES
           [] b[from] = 0 ->
              LET e1 == OptEnd(b, from + 1)
                  e2 == IF e1 = -1 THEN -1 ELSE OptEnd(b, e1 + 1)
              IN  IF e2 = -1 THEN -1 ELSE e2 + U16_BYTES + U64_BYTES
           [] OTHER -> -1

\* the same for a whole instruction: tag byte plus the least payload of its layout
Need(b) ==
    LET t == b[1]
    IN  CASE t \in NoPayloadTags \cup {21, 24, 29} -> 1
          [] t \in {2, 19} -> 2
          [] t \in {3, 4, 7, 8, 23} -> 1 + U64_BYTES
          [] t \in 12..15 -> 1 + U64_BYTES + 1
          [] t \in {16, 18, 35} -> 1 + PUBKEY_BYTES
          [] t \in {0, 20} -> OptEnd(b, 2 + PUBKEY_BYTES + 1)
          [] t = 6 ->
             IF Len(b) >= 2 /\ b[2] >= Len(AuthorityTypeNames) THEN -1 ELSE OptEnd(b, 3)
          [] t = 25 -> OptEnd(b, 2)
          [] t = 26 -> SubNeed(b, 2)
          [] OTHER -> -1

\* b is a tag in 0..39 followed by a minimally valid payload of its layout
MinimalEncoding(b) == Len(b) >= 1 /\ Need(b) = Len(b)

\* b is a proper prefix of such a buffer that still holds the tag byte
TruncatedEncoding(b) == Len(b) >= 1 /\ Need(b) > Len(b)

\* the fee sub-instruction a minimally valid b[from..] encodes
ExpectedSub(b, from) ==
    LET p == from + 1
    IN  CASE b[from] = 0 ->
             LET e1 == OptEnd(b, p)
                 e2 == OptEnd(b, e1 + 1)
             IN  [name |-> "InitializeTransferFeeConfig",
                  transfer_fee_config_authority |-> OptAt(b, p),
                  withdraw_withheld_authority |-> OptAt(b, e1 + 1),
                  transfer_fee_basis_points |-> Le16At(b, e2 + 1),
                  maximum_fee |-> Le64At(b, e2 + 1 + U16_BYTES)]
          [] b[from] = 1 ->
             [name |-> "TransferCheckedWithFee", amount |-> Le64At(b, p),
              decimals |-> b[p + U64_BYTES], fee |-> Le64At(b, p + U64_BYTES + 1)]
          [] b[from] = 2 -> [name |-> "WithdrawWithheldTokensFromMint"]
          [] b[from] = 3 ->
             [name |-> "WithdrawWithheldTokensFromAccounts", num_token_accounts |-> b[p]]
          [] b[from] = 4 -> [name |-> "HarvestWithheldTokensToMint"]
          [] b[from] = 5 ->
             [name |-> "SetTransferFee", transfer_fee_basis_points |-> Le16At(b, p),
              maximum_fee |-> Le64At(b, p + U16_BYTES)]

\* the instruction a minimally valid b encodes
ExpectedValue(b) ==
    LET t == b[1]
        n == VariantNames[t + 1]
    IN  CASE t \in {0, 20} ->
             [name |-> n, mint_authority |-> KeyAt(b, 3),
              freeze_authority |-> OptAt(b, 3 + PUBKEY_BYTES), decimals |-> b[2]]
          [] t \in {2, 19} -> [name |-> n, m |-> b[2]]
          [] t \in {3, 4, 7, 8, 23} -> [name |-> n, amount |-> Le64At(b, 2)]
          [] t \in 12..15 ->
             [name |-> n, amount |-> Le64At(b, 2), decimals |-> b[2 + U64_BYTES]]
          [] t \in {16, 18} -> [name |-> n, owner |-> KeyAt(b, 2)]
          [] t = 35 -> [name |-> n, delegate |-> KeyAt(b, 2)]
          [] t = 6 ->
             [name |-> n, authority_type |-> AuthorityTypeNames[b[2] + 1],
              new_authority |-> OptAt(b, 3)]
          [] t \in {21, 29} -> [name |-> n, extension_types |-> <<>>]
          [] t = 24 -> [name |-> n, ui_amount |-> <<>>]
          [] t = 25 -> [name |-> n, close_authority |-> OptAt(b, 2)]
          [] t = 26 -> [name |-> n, instruction |-> ExpectedSub(b, 2)]
          [] OTHER -> [name |-> n]

----------------------------------------------------------------------------
(* Properties *)

\* C1: TokenInstruction::unpack of a tag in 0..39 followed by a minimally valid payload
\* succeeds with the variant declared for that tag and the field values the payload
\* encodes; every successful decode yields the variant of its own tag and of no other
\* tag, so buffers with different tags never decode to the same variant.
C1_TagToVariant ==
    op = "unpack" =>
        /\ MinimalEncoding(input) => result = OkVal(ExpectedValue(input))
        /\ IsOk(result) =>
            /\ input[1] \in DefinedTags
            /\ result.val.name = VariantNames[input[1] + 1]
            /\ \A t \in DefinedTags \ {input[1]} : result.val.name # VariantNames[t + 1]

C1_Witness ==
    /\ op = "unpack"
    /\ Len(input) = 2 + 2 * PUBKEY_BYTES + 1
    /\ input[1] = 20
    /\ MinimalEncoding(input)
    /\ IsOk(result)
    /\ result.val.freeze_authority = COptionSome(KeyB)

\* C2: a first byte of 40 or more makes TokenInstruction::unpack fail with the
\* unknown-tag error that reports that byte, whatever follows it.
C2_UnknownTag ==
    (op = "unpack" /\ Len(input) >= 1 /\ input[1] >= Len(VariantNames)) =>
        result = Err("Invalid Instruction - unpack didn't match any tag value: {}",
                     <<input[1]>>)

C2_Witness ==
    /\ op = "unpack"
    /\ Len(input) > PUBKEY_BYTES
    /\ input[1] = 40
    /\ result.arg = <<40>>

\* C3: a defined tag followed by fewer payload bytes than its layout needs (any proper
\* prefix of a minimally valid encoding, down to the tag alone) makes
\* TokenInstruction::unpack return an error: no variant, no panic.
C3_Truncated ==
    (op = "unpack" /\ TruncatedEncoding(input)) => IsErr(result)

C3_Witness ==
    /\ op = "unpack"
    /\ Len(input) = 2 + 2 * PUBKEY_BYTES
    /\ input[1] = 0
    /\ TruncatedEncoding(input)
    /\ IsErr(result)

\* C4: on the empty buffer both decoders fail at the read of the tag byte, with the
\* error of that read, and return no variant.
C4_EmptyBuffer ==
    input = <<>> =>
        /\ op = "unpack" => result = Err("Invalid Instruction", <<>>)
        /\ op = "transfer_fee_unpack" =>
            result = Err("Invalid Transfer Fee Instruction", <<>>)

C4_Witness ==
    /\ op = "transfer_fee_unpack"
    /\ input = <<>>
    /\ IsErr(result)

\* C5: no decoder panics, on any buffer: each call returns a value or an error, so the
\* unreachable!() arm is never taken and no slice expression runs past the buffer.
C5_NoPanic ==
    op # "none" => result.kind \in {"ok", "err"}

C5_Witness ==
    /\ op = "unpack_u64"
    /\ Len(input) = U64_BYTES - 1
    /\ IsErr(result)

\* C6: unpack_pubkey_option returns absent and everything after the first byte on a
\* leading 0, present with bytes 2..33 as the key and everything after byte 33 on a
\* leading 1 followed by at least 32 bytes, and fails on a leading 2..255 and on the
\* empty buffer.
C6_PubkeyOption ==
    op = "unpack_pubkey_option" =>
        /\ input = <<>> => IsErr(result)
        /\ (Len(input) >= 1 /\ input[1] = 0) => result = Ok(COptionNone, Tail(input))
        /\ (Len(input) >= 1 + PUBKEY_BYTES /\ input[1] = 1) =>
            result = Ok(COptionSome(SubSeq(input, 2, 1 + PUBKEY_BYTES)),
                        SubSeq(input, 2 + PUBKEY_BYTES, Len(input)))
        /\ (Len(input) >= 1 /\ input[1] >= 2) => IsErr(result)

C6_Witness ==
    /\ op = "unpack_pubkey_option"
    /\ Len(input) = 2 + PUBKEY_BYTES
    /\ input[1] = 1
    /\ result.val = COptionSome(KeyA)
    /\ result.rest = <<9>>

ListTags == {21, 29}

\* the number of whole 2-byte chunks after the tag of b, and the code of the i-th
NumChunks(b) == (Len(b) - 1) \div 2
ChunkCode(b, i) == Le16At(b, 2 * i)

IsListBuffer(b) == Len(b) >= 1 /\ b[1] \in ListTags

\* C7: for tags 21 and 29 a remainder of 2n bytes whose n little-endian codes are all
\* in 0..19 decodes to the list of exactly those n extension types, in wire order; the
\* empty remainder gives the empty list.
C7_ExtensionList ==
    (/\ op = "unpack"
     /\ IsListBuffer(input)
     /\ (Len(input) - 1) % 2 = 0
     /\ \A i \in 1..NumChunks(input) : ChunkCode(input, i) <= 19) =>
        /\ IsOk(result)
        /\ result.val.name = VariantNames[input[1] + 1]
        /\ Len(result.val.extension_types) = NumChunks(input)
        /\ \A i \in 1..NumChunks(input) :
              result.val.extension_types[i] = ExtensionTypeNames[ChunkCode(input, i) + 1]

C7_Witness ==
    /\ op = "unpack"
    /\ input = <<21, 1, 0, 3, 0>>
    /\ result.val.extension_types = <<"TransferFeeConfig", "MintCloseAuthority">>

\* C8: for tags 21 and 29 a remainder of odd length fails; when every whole chunk
\* before the last byte is a valid code, the error is that of the short last chunk.
C8_OddList ==
    (op = "unpack" /\ IsListBuffer(input) /\ (Len(input) - 1) % 2 = 1) =>
        /\ IsErr(result)
        /\ (\A i \in 1..NumChunks(input) : ChunkCode(input, i) <= 19) =>
            result = Err("ExtensionType - Invalid extension type from byte", <<>>)

C8_Witness ==
    /\ op = "unpack"
    /\ input = <<29, 1, 0, 3, 0, 3>>
    /\ IsErr(result)

HasInvalidCode(b) == \E i \in 1..NumChunks(b) : ChunkCode(b, i) > 19

FirstInvalidCode(b) ==
    LET i == CHOOSE j \in 1..NumChunks(b) :
                 /\ ChunkCode(b, j) > 19
                 /\ \A k \in 1..(j - 1) : ChunkCode(b, k) <= 19
    IN  ChunkCode(b, i)

\* C9 as stated: an extension list with a code outside 0..19 fails with an error that
\* carries the first offending code.
C9_CarriesCode ==
    (op = "unpack" /\ IsListBuffer(input) /\ HasInvalidCode(input)) =>
        /\ IsErr(result)
        /\ result.arg = <<FirstInvalidCode(input)>>

\* C9: an extension list (tags 21, 29) with a code outside 0..19 fails with the one
\* fixed invalid-extension error, which carries no code: every out-of-range code, in a
\* list or handed to the conversion directly, yields the same error.
C9_FixedError ==
    /\ (op = "unpack" /\ IsListBuffer(input) /\ HasInvalidCode(input)) =>
        result = Err("ExtensionType - try from - Invalid account data", <<>>)
    /\ (op = "extension_type_try_from" /\ Len(input) = ExtensionTypeSize
        /\ Le16At(input, 1) > 19) =>
        result = Err("ExtensionType - try from - Invalid account data", <<>>)

C9_Witness ==
    /\ op = "unpack"
    /\ input = <<21, 1, 0, 20, 0>>
    /\ IsErr(result)
    /\ result.arg = <<>>

\* C10: in a production build the 2-byte codes that decode are exactly 0..19: code c
\* in 0..19 gives the c-th named extension (0 Uninitialized, 19 TokenMetadata), whose
\* own code is c, so distinct codes give distinct extensions; every code in 20..65535,
\* the test-only codes 65533..65535 included, is rejected.
C10_ProductionCodes ==
    (op = "extension_type_try_from" /\ ~cfg_test /\ Len(input) = ExtensionTypeSize) =>
        LET code == Le16At(input, 1)
        IN  /\ code <= 19 =>
                /\ result = OkVal(ExtensionTypeNames[code + 1])
                /\ ExtensionTypeIntoPrimitive(result.val) = code
            /\ code = 0 => result = OkVal("Uninitialized")
            /\ code = 19 => result = OkVal("TokenMetadata")
            /\ code >= 20 => IsErr(result)

C10_Witness ==
    /\ op = "extension_type_try_from"
    /\ ~cfg_test
    /\ input = <<253, 255>>
    /\ IsErr(result)

\* C11: AuthorityType::from maps each byte 0..12 to the authority kind declared at that
\* position (0 MintTokens, 12 MetadataPointer), distinct bytes to distinct kinds, and
\* fails on each byte 13..255 with an error reporting that byte; tag 6 with an authority
\* byte of 13 or more fails with that error whatever follows.
C11_AuthorityType ==
    /\ op = "authority_type_from" =>
        /\ input[1] <= 12 =>
            /\ result = OkVal(AuthorityTypeNames[input[1] + 1])
            /\ \A j \in 0..12 : j # input[1] => AuthorityTypeNames[j + 1] # result.val
        /\ input[1] = 0 => result = OkVal("MintTokens")
        /\ input[1] = 12 => result = OkVal("MetadataPointer")
        /\ input[1] >= 13 =>
            result = Err("Invalid Instruction - Invalid AuthorityType with index {}",
                         <<input[1]>>)
    /\ (op = "unpack" /\ Len(input) >= 2 /\ input[1] = 6 /\ input[2] >= 13) =>
        result = Err("Invalid Instruction - Invalid AuthorityType with index {}",
                     <<input[2]>>)

C11_Witness ==
    /\ op = "unpack"
    /\ Len(input) = 3 + PUBKEY_BYTES
    /\ input[1] = 6
    /\ input[2] = 13
    /\ result.arg = <<13>>

\* b holds a whole fee sub-instruction from its first byte on, possibly followed by more
WellFormedSub(b) == Len(b) >= 1 /\ SubNeed(b, 1) # -1 /\ SubNeed(b, 1) <= Len(b)

\* the width of an OptionalKey with discriminant d
OptWidth(d) == IF d = 0 THEN 1 ELSE 1 + PUBKEY_BYTES

\* the bytes a well-formed fee sub-instruction takes, tag byte included
SubWidth(b) ==
    CASE b[1] = 0 -> 1 + OptWidth(b[2]) + OptWidth(b[2 + OptWidth(b[2])]) + 2 + 8
      [] b[1] = 1 -> 18
      [] b[1] \in {2, 4} -> 1
      [] b[1] = 3 -> 2
      [] b[1] = 5 -> 11

\* C12: TransferFeeInstruction::unpack reads the fields of tags 0..5 in the order of
\* the dispatch table (0: OptionalKey, OptionalKey, u16, u64; 1: u64, u8, u64; 2 and 4:
\* none; 3: u8; 5: u16, u64) and returns as remainder the suffix of the input right
\* after the tag byte and exactly those fields.
C12_TransferFeeLayout ==
    (op = "transfer_fee_unpack" /\ WellFormedSub(input)) =>
        /\ IsOk(result)
        /\ result.val = ExpectedSub(input, 1)
        /\ result.rest = DropFirst(input, SubWidth(input))

C12_Witness ==
    /\ op = "transfer_fee_unpack"
    /\ input = <<0, 1>> \o KeyA \o <<1>> \o KeyB \o <<244, 1>> \o LeA \o <<9>>
    /\ IsOk(result)
    /\ result.val.transfer_fee_basis_points = 500
    /\ result.rest = <<9>>

\* C13: a first byte in 6..255 makes TransferFeeInstruction::unpack fail with the
\* unknown-sub-instruction-tag error: no variant and no remainder are returned.
C13_UnknownSubTag ==
    (op = "transfer_fee_unpack" /\ Len(input) >= 1 /\ input[1] >= 6) =>
        result = Err("Invalid Transfer Fee Instruction - unpack didn't match any tag value: {}",
                     <<input[1]>>)

C13_Witness ==
    /\ op = "transfer_fee_unpack"
    /\ Len(input) > PUBKEY_BYTES
    /\ input[1] = 6
    /\ IsErr(result)

\* C14: TokenInstruction::unpack of 26 followed by b succeeds exactly when
\* TransferFeeInstruction::unpack of b succeeds, and then returns TransferFeeExtension
\* of that sub-instruction, the sub-decoder's remainder being dropped; when the
\* sub-decoder fails, so does the whole decode, with its error.  The 19 bytes
\* 26, 1, 16 0 0 0 0 0 0 0, 6, 5 0 0 0 0 0 0 0 give TransferCheckedWithFee with
\* amount 16, decimals 6, fee 5.
C14_Nested ==
    (op = "unpack" /\ Len(input) >= 1 /\ input[1] = 26) =>
        LET sub == TransferFeeUnpack(Tail(input))
        IN  /\ IsOk(result) <=> IsOk(sub)
            /\ IsOk(result) <=> (SubNeed(input, 2) # -1 /\ SubNeed(input, 2) <= Len(input))
            /\ IsOk(sub) =>
                /\ result = OkVal([name |-> "TransferFeeExtension", instruction |-> sub.val])
                /\ result.val.instruction = ExpectedSub(input, 2)
            /\ ~IsOk(sub) => (IsErr(result) /\ result = sub)
            /\ input = <<26, 1, 16, 0, 0, 0, 0, 0, 0, 0, 6, 5, 0, 0, 0, 0, 0, 0, 0>> =>
                result.val.instruction =
                    [name |-> "TransferCheckedWithFee", amount |-> <<16, 0, 0, 0>>,
                     decimals |-> 6, fee |-> <<5, 0, 0, 0>>]

C14_Witness ==
    /\ op = "unpack"
    /\ input = <<26, 1, 16, 0, 0, 0, 0, 0, 0, 0, 6, 5, 0, 0, 0, 0, 0, 0, 0>>
    /\ IsOk(result)
    /\ result.val.name = "TransferFeeExtension"

\* C15: for every tag other than the list tags 21 and 29 and the string tag 24, bytes
\* after the payload are ignored: whenever a prefix of the buffer (tag byte included)
\* decodes successfully, the whole buffer decodes to the same variant and field values;
\* for a no-payload tag the result is the variant of the tag byte, whatever follows.
C15_TrailingIgnored ==
    (op = "unpack" /\ Len(input) >= 1 /\ input[1] \notin {21, 24, 29}) =>
        /\ \A k \in 1..(Len(input) - 1) :
               LET short == Unpack(TakeFirst(input, k))
               IN  IsOk(short) => result = short
        /\ input[1] \in NoPayloadTags =>
               result = OkVal([name |-> VariantNames[input[1] + 1]])

C15_Witness ==
    /\ op = "unpack"
    /\ Len(input) > 1 + PUBKEY_BYTES
    /\ input[1] = 16
    /\ IsOk(Unpack(TakeFirst(input, 1 + PUBKEY_BYTES)))
    /\ IsOk(result)
    /\ result.val.owner = KeyAt(input, 2)

\* UTF-8 as the encoding of Unicode scalar values: the lead byte gives the length, the
\* other bytes are 10xxxxxx, the value is encoded in the shortest form, is at most
\* 10FFFF and is no surrogate (D800..DFFF)
ScalarLen(lead) ==
    IF lead < 128 THEN 1
    ELSE IF lead >= 192 /\ lead < 224 THEN 2
    ELSE IF lead >= 224 /\ lead < 240 THEN 3
    ELSE IF lead >= 240 /\ lead < 248 THEN 4
    ELSE 0

ScalarMin(n) == CASE n = 1 -> 0 [] n = 2 -> 128 [] n = 3 -> 2048 [] n = 4 -> 65536

ScalarAt(s, i, n) ==
    CASE n = 1 -> s[i]
      [] n = 2 -> (s[i] - 192) * 64 + (s[i + 1] - 128)
      [] n = 3 -> (s[i] - 224) * 4096 + (s[i + 1] - 128) * 64 + (s[i + 2] - 128)
      [] n = 4 -> (s[i] - 240) * 262144 + (s[i + 1] - 128) * 4096
                  + (s[i + 2] - 128) * 64 + (s[i + 3] - 128)

RECURSIVE IsUtf8Text(_, _)
IsUtf8Text(s, i) ==
    IF i > Len(s) THEN TRUE
    ELSE LET n == ScalarLen(s[i])
         IN  /\ n > 0
             /\ i + n - 1 <= Len(s)
             /\ \A j \in (i + 1)..(i + n - 1) : s[j] >= 128 /\ s[j] < 192
             /\ LET v == ScalarAt(s, i, n)
                IN  /\ v >= ScalarMin(n)
                    /\ v <= 1114111
                    /\ ~(v >= 55296 /\ v <= 57343)
             /\ IsUtf8Text(s, i + n)

\* C16: for tag 24 the decode succeeds exactly when all the bytes after the tag byte are
\* valid UTF-8, and then ui_amount is the whole remainder (the empty string for an empty
\* remainder); otherwise it fails with the error "Invalid Instruction - 24".
C16_UiAmountText ==
    (op = "unpack" /\ Len(input) >= 1 /\ input[1] = 24) =>
        IF IsUtf8Text(Tail(input), 1)
        THEN result = OkVal([name |-> "UiAmountToAmount", ui_amount |-> Tail(input)])
        ELSE result = Err("Invalid Instruction - 24", <<>>)

C16_Witness ==
    /\ op = "unpack"
    /\ input = <<24, 240, 160, 128, 128>>
    /\ IsOk(result)
    /\ result.val.ui_amount = <<240, 160, 128, 128>>

\* C17: the primitive codecs consume exactly their width and are little-endian.
\* unpack_u16 on 2 or more bytes returns b0 + 256*b1 and the buffer minus 2 bytes;
\* unpack_u64 on 8 or more bytes returns the sum of b_i * 256^i (stated per 16-bit limb
\* k as b_(2k-2) + 256*b_(2k-1)) and the buffer minus 8 bytes; unpack_pubkey on 32 or
\* more bytes returns the first 32 bytes and the buffer minus them;
\* unpack_amount_decimals on 9 or more bytes returns that u64, byte 8 as decimals and
\* the buffer minus 9 bytes; each one fails on a shorter buffer.
C17_Primitives ==
    /\ op = "unpack_u16" =>
         IF Len(input) >= U16_BYTES
         THEN /\ IsOk(result)
              /\ result.val = input[1] + 256 * input[2]
              /\ result.rest = SubSeq(input, U16_BYTES + 1, Len(input))
         ELSE IsErr(result)
    /\ op = "unpack_u64" =>
         IF Len(input) >= U64_BYTES
         THEN /\ IsOk(result)
              /\ \A k \in 1..4 : result.val[k] = input[2 * k - 1] + 256 * input[2 * k]
              /\ Len(result.val) = 4
              /\ result.rest = SubSeq(input, U64_BYTES + 1, Len(input))
         ELSE IsErr(result)
    /\ op = "unpack_pubkey" =>
         IF Len(input) >= PUBKEY_BYTES
         THEN /\ IsOk(result)
              /\ result.val = SubSeq(input, 1, PUBKEY_BYTES)
              /\ result.rest = SubSeq(input, PUBKEY_BYTES + 1, Len(input))
         ELSE IsErr(result)
    /\ op = "unpack_amount_decimals" =>
         IF Len(input) >= U64_BYTES + 1
         THEN /\ IsOk(result)
              /\ \A k \in 1..4 : result.val[1][k] = input[2 * k - 1] + 256 * input[2 * k]
              /\ Len(result.val[1]) = 4
              /\ result.val[2] = input[U64_BYTES + 1]
              /\ result.rest = SubSeq(input, U64_BYTES + 2, Len(input))
         ELSE IsErr(result)

C17_Witness ==
    /\ op = "unpack_u64"
    /\ Len(input) > U64_BYTES
    /\ SubSeq(input, 1, U64_BYTES) = LeB
    /\ IsOk(result)
    /\ result.val = <<513, 1027, 1541, 32775>>
    /\ Len(result.rest) = Len(input) - U64_BYTES

CutBeforeDiscriminant ==
    \/ /\ op = "unpack"
       /\ Len(input) >= 1
       /\ \/ input[1] = 25 /\ Len(input) = 1
          \/ input[1] = 6 /\ Len(input) = 2 /\ input[2] < Len(AuthorityTypeNames)
          \/ input[1] \in {0, 20} /\ Len(input) = 2 + PUBKEY_BYTES
          \/ input[1] = 26 /\ Len(input) = 2 /\ input[2] = 0
    \/ op = "transfer_fee_unpack" /\ input = <<0>>
    \/ op = "unpack_pubkey_option" /\ input = <<>>

\* the decoder the state's call ran, applied to b
Decode(b) ==
    CASE op = "unpack" -> Unpack(b)
      [] op = "transfer_fee_unpack" -> TransferFeeUnpack(b)
      [] op = "unpack_pubkey_option" -> UnpackPubkeyOption(b)

BadDiscriminants == 2..255

\* C20 as claimed: a payload cut off right before an optional key's discriminant byte
\* gives an error that can be told from the error given when that byte is present
\* with a value other than 0 or 1.
C20_KindsDiffer ==
    CutBeforeDiscriminant =>
        /\ IsErr(result)
        /\ \A d \in BadDiscriminants : result # Decode(Append(input, d))

\* C20: a payload cut off right before an optional key's discriminant byte fails with
\* the error "unable to unpack pubkey option", the very error given when that byte is
\* present with a value other than 0 or 1: the error does not tell the two apart.
C20_SameError ==
    CutBeforeDiscriminant =>
        /\ result = Err("unable to unpack pubkey option", <<>>)
        /\ \A d \in BadDiscriminants : Decode(Append(input, d)) = result

C20_Witness ==
    /\ op = "unpack"
    /\ Len(input) = 2 + PUBKEY_BYTES
    /\ input[1] = 20
    /\ CutBeforeDiscriminant
    /\ IsErr(result)
    /\ result = Unpack(Append(input, 2))

\* some field of the layout of b's tag cannot be read from b: a fixed-layout payload
\* is too short or holds an authority type above 12 or an OptionalKey discriminant
\* other than 0 and 1; a list payload has an odd length or a code above 19; a text
\* payload is not UTF-8
MalformedField(b) ==
    /\ Len(b) >= 1
    /\ b[1] \in DefinedTags
    /\ CASE b[1] \in ListTags -> (Len(b) - 1) % 2 = 1 \/ HasInvalidCode(b)
         [] b[1] = 24 -> ~IsUtf8Text(Tail(b), 1)
         [] OTHER -> Need(b) = -1 \/ Need(b) > Len(b)

\* the same for a fee sub-instruction on its own
MalformedSubField(b) == Len(b) >= 1 /\ b[1] \in 0..5 /\ ~WellFormedSub(b)

ErrorFields == {"kind", "msg", "arg"}

\* C21: when any field read inside TokenInstruction::unpack or
\* TransferFeeInstruction::unpack fails, the call returns an error and nothing else: no
\* variant, no field decoded before the failure, even when all the earlier fields of
\* the payload were well formed.
C21_Propagation ==
    /\ (op = "unpack" /\ MalformedField(input)) =>
           (IsErr(result) /\ DOMAIN result = ErrorFields)
    /\ (op = "transfer_fee_unpack" /\ MalformedSubField(input)) =>
           (IsErr(result) /\ DOMAIN result = ErrorFields)

C21_Witness ==
    /\ op = "unpack"
    /\ input = <<0, 6>> \o KeyA \o <<2>>
    /\ IsOk(UnpackPubkey(DropFirst(input, 2)))
    /\ IsErr(result)

\* C22: a Pubkey is constructed from a byte sequence, by the slice constructor and by
\* the vector constructor alike, exactly when the sequence has 32 bytes; every other
\* length fails (the vector constructor hands the vector back).  The key holds the 32
\* bytes as given: to_bytes and as_ref return them, and the key equals another key
\* exactly when their bytes are equal.
C22_PubkeyConstruction ==
    (op \in {"pubkey_try_from_slice", "pubkey_try_from_vec"}) =>
        IF Len(input) = 32
        THEN /\ IsOk(result)
             /\ PubkeyToBytes(result.val) = input
             /\ PubkeyAsRef(result.val) = input
             /\ Len(PubkeyToBytes(result.val)) = 32
             /\ \A k \in {KeyA, KeyB} :
                    PubkeyEq(result.val, PubkeyFrom(k)) <=> (input = k)
        ELSE /\ IsErr(result)
             /\ op = "pubkey_try_from_vec" => result.vec = input

C22_Witness ==
    /\ op = "pubkey_try_from_vec"
    /\ input = KeyB
    /\ IsOk(result)
    /\ PubkeyToBytes(result.val) = KeyB

\* byte k of the buffer, the tag being byte 0
ByteAt(b, k) == b[k + 1]

\* bytes from..to of the buffer, the tag being byte 0
BytesAt(b, from, to) == SubSeq(b, from + 1, to + 1)

\* the OptionalKey read from byte k on: absent for discriminant 0, the next 32 bytes
\* for discriminant 1
OptionalKeyAt(b, k) ==
    IF ByteAt(b, k) = 0 THEN COptionNone
    ELSE COptionSome(BytesAt(b, k + 1, k + 32))

\* an OptionalKey can be read from byte k on
OptionalKeyFits(b, k) ==
    /\ Len(b) >= k + 1
    /\ \/ ByteAt(b, k) = 0
       \/ ByteAt(b, k) = 1 /\ Len(b) >= k + 33

\* C23: the layouts that carry keys read their fields in wire order from fixed offsets,
\* whatever follows the payload.  Tags 0 and 20: decimals from byte 1, the mint
\* authority from bytes 2..33, the OptionalKey freeze authority from byte 34 on; tags
\* 16, 18 and 35: the key from bytes 1..32; tag 25: an OptionalKey from byte 1 on; tag
\* 6: the authority type from byte 1, an OptionalKey from byte 2 on.  The bytes
\* 0, 6, a 32-byte key, 0 decode to InitializeMint with decimals 6, that key as mint
\* authority and no freeze authority.
C23_KeyLayouts ==
    (op = "unpack" /\ Len(input) >= 1) =>
        LET t == input[1]
            n == VariantNames[t + 1]
        IN  /\ (t \in {0, 20} /\ OptionalKeyFits(input, 34)) =>
                  result = OkVal([name |-> n,
                                  decimals |-> ByteAt(input, 1),
                                  mint_authority |-> BytesAt(input, 2, 33),
                                  freeze_authority |-> OptionalKeyAt(input, 34)])
            /\ (t \in {16, 18} /\ Len(input) >= 33) =>
                  result = OkVal([name |-> n, owner |-> BytesAt(input, 1, 32)])
            /\ (t = 35 /\ Len(input) >= 33) =>
                  result = OkVal([name |-> n, delegate |-> BytesAt(input, 1, 32)])
            /\ (t = 25 /\ OptionalKeyFits(input, 1)) =>
                  result = OkVal([name |-> n, close_authority |-> OptionalKeyAt(input, 1)])
            /\ (t = 6 /\ OptionalKeyFits(input, 2) /\ ByteAt(input, 1) <= 12) =>
                  result = OkVal([name |-> n,
                                  authority_type |-> AuthorityTypeNames[ByteAt(input, 1) + 1],
                                  new_authority |-> OptionalKeyAt(input, 2)])
            /\ input = <<0, 6>> \o KeyB \o <<0>> =>
                  result = OkVal([name |-> "InitializeMint", decimals |-> 6,
                                  mint_authority |-> KeyB,
                                  freeze_authority |-> COptionNone])

C23_Witness ==
    /\ op = "unpack"
    /\ input = <<0, 6>> \o KeyB \o <<0>>
    /\ IsOk(result)
    /\ result.val.name = "InitializeMint"
    /\ result.val.decimals = 6

\* the little-endian u64 of bytes from..from+7 of the buffer (the tag being byte 0), as
\* 16-bit limbs, least significant first
U64At(b, from) == [k \in 1..4 |-> ByteAt(b, from + 2 * k - 2) + 256 * ByteAt(b, from + 2 * k - 1)]

\* C24: the layouts that carry integers.  Tags 3, 4, 7, 8 and 23: amount is the
\* little-endian u64 of bytes 1..8, and tag 23 reads no decimals byte; tags 12 to 15:
\* that u64 and decimals from byte 9; tags 2 and 19: m from byte 1, every value 0..255
\* accepted, also those outside MIN_SIGNERS..MAX_SIGNERS.  The bytes
\* 3, 100 0 0 0 0 0 0 0 decode to Transfer with amount 100.
C24_IntegerLayouts ==
    (op = "unpack" /\ Len(input) >= 1) =>
        LET t == input[1]
            n == VariantNames[t + 1]
        IN  /\ t \in {3, 4, 7, 8, 23} =>
                  IF Len(input) >= 9
                  THEN result = OkVal([name |-> n, amount |-> U64At(input, 1)])
                  ELSE IsErr(result)
            /\ t \in 12..15 =>
                  IF Len(input) >= 10
                  THEN result = OkVal([name |-> n, amount |-> U64At(input, 1),
                                       decimals |-> ByteAt(input, 9)])
                  ELSE IsErr(result)
            /\ t \in {2, 19} =>
                  IF Len(input) >= 2
                  THEN result = OkVal([name |-> n, m |-> ByteAt(input, 1)])
                  ELSE IsErr(result)
            /\ input = <<3, 100, 0, 0, 0, 0, 0, 0, 0>> =>
                  result = OkVal([name |-> "Transfer", amount |-> <<100, 0, 0, 0>>])

C24_Witness ==
    /\ op = "unpack"
    /\ Len(input) >= 2
    /\ input[1] = 19
    /\ input[2] > MAX_SIGNERS
    /\ IsOk(result)
    /\ result.val.m = input[2]

OptionError == Err("unable to unpack pubkey option", <<>>)
KeyError == Err("Unable to unpack pubkey from bytes", <<>>)

\* the error of the OptionalKey that starts at b[i], "none" when it can be read
OptionalKeyError(b, i) ==
    IF Len(b) < i \/ b[i] > 1 THEN OptionError
    ELSE IF b[i] = 1 /\ Len(b) < i + PUBKEY_BYTES THEN KeyError
    ELSE NoResult

\* the error of the first field, in wire order, that cannot be read from the fee
\* sub-instruction 0 held by b: two OptionalKeys, a u16, a u64
FirstFeeConfigError(b) ==
    LET x1 == OptionalKeyError(b, 2)
        e1 == OptEnd(b, 2)
        x2 == OptionalKeyError(b, e1 + 1)
        e2 == OptEnd(b, e1 + 1)
    IN  IF x1 # NoResult THEN x1
        ELSE IF x2 # NoResult THEN x2
        ELSE IF Len(b) < e2 + U16_BYTES THEN Err("Unable to unpack u16", <<>>)
        ELSE Err("Unable to unpack u64", <<>>)

\* C25: the error returned is that of the first field, in wire order, that cannot be
\* read.  Tag 6 with an authority byte of 13 or more reports the invalid authority type
\* whether the OptionalKey after it is missing, has a bad discriminant or is valid;
\* tags 21 and 29 report an invalid code when one is present, also when a short chunk
\* follows it, and the short chunk otherwise; an unknown tag is reported whatever the
\* payload; fee sub-instruction 0 reports the first of its two OptionalKeys, its u16
\* and its u64 that cannot be read.
C25_FirstError ==
    /\ (op = "unpack" /\ Len(input) >= 2 /\ input[1] = 6 /\ input[2] >= 13) =>
           result = Err("Invalid Instruction - Invalid AuthorityType with index {}",
                        <<input[2]>>)
    /\ (op = "unpack" /\ IsListBuffer(input)
        /\ (HasInvalidCode(input) \/ (Len(input) - 1) % 2 = 1)) =>
           result = IF HasInvalidCode(input)
                    THEN Err("ExtensionType - try from - Invalid account data", <<>>)
                    ELSE Err("ExtensionType - Invalid extension type from byte", <<>>)
    /\ (op = "unpack" /\ Len(input) >= 1 /\ input[1] \notin DefinedTags) =>
           result = Err("Invalid Instruction - unpack didn't match any tag value: {}",
                        <<input[1]>>)
    /\ (op = "transfer_fee_unpack" /\ Len(input) >= 1 /\ input[1] = 0
        /\ ~WellFormedSub(input)) =>
           result = FirstFeeConfigError(input)

C25_Witness ==
    /\ op = "unpack"
    /\ input = <<21, 20, 0, 3>>
    /\ result = Err("ExtensionType - try from - Invalid account data", <<>>)

\* C26: the ExtensionType byte conversions round-trip.  A 2-byte array that converts to
\* an ExtensionType e converts back from e to the same 2 bytes, and the bytes of e
\* convert to e again; every code 0..19 is such an e.  The conversion from bytes fails
\* on every slice whose length is not 2.
C26_RoundTrip ==
    /\ op = "extension_type_to_bytes" =>
        /\ result.val = input
        /\ Len(result.val) = 2
        /\ ExtensionTypeTryFrom(result.val) = OkVal(result.self)
    /\ (op = "extension_type_try_from" /\ Len(input) = 2 /\ Le16At(input, 1) <= 19) =>
        /\ IsOk(result)
        /\ ENABLED CallExtensionTypeToBytes
    /\ (op = "extension_type_try_from" /\ Len(input) # 2) => IsErr(result)

C26_Witness ==
    /\ op = "extension_type_to_bytes"
    /\ result.self = "MetadataPointer"
    /\ result.val = <<18, 0>>
    /\ input = <<18, 0>>

====
